---- MODULE Spec2Model ----
(***************************************************************************)
(* deploy-tool: a command-line utility that deploys a static site built    *)
(* from a GitHub repository to an S3 bucket.  The model follows the click  *)
(* commands of deploy_tool/cli.py (verify, list, init, deploy, rollback)   *)
(* and the helpers they call in aws.py, github.py and config.py.           *)
(*                                                                         *)
(* One command runs at a time (the tool is a synchronous CLI process).     *)
(* What outlives a command is the state file ~/.deploy-tool/state.json,    *)
(* and the buckets and objects held by the provider.  Everything the       *)
(* environment decides (whether credentials verify, whether a provider     *)
(* call fails and how, what the cloned repository contains, what the       *)
(* build emits) is drawn with \E.                                          *)
(***************************************************************************)
EXTENDS Integers, Sequences, FiniteSets, TLC

\* ------------------------------------------------------------------ bounds
MaxBuckets == 2
MaxFiles == 2
\* Records the state file may hold before init stops provisioning more.
MaxResources == 2

\* Bucket names stand for "static-site-<8 hex digits>" (cli.py:77-78).
BucketNames == 1..MaxBuckets
\* Relative paths of the files a build directory may hold.
FileNames == 1..MaxFiles
\* bucket_name when no bucket is meant (None in the source).
NoBucket == 0

VARIABLES
    state_file,        \* ~/.deploy-tool/state.json: [exists, resources]
    s3_buckets,        \* names of the buckets that exist at the provider
    s3_objects,        \* bucket name -> keys of the objects it holds
    cmd,               \* the command being run
    pc,                \* position inside the command's handler
    outcome,           \* which return path the command took
    exit_code,         \* process exit status, meaningful when pc = "done"
    echoed,            \* click.echo lines of this command, in order
    calls,             \* provider API calls of this command, in order
    state_before,      \* state_file as it was when the command started
    is_valid,          \* result of verify_aws_credentials in this command
    temp_dir,          \* clone_repository: local temp_dir ("unbound" | "tmp")
    tmp_on_disk,       \* whether this command's temporary directory exists on disk
    repo_path,         \* deploy: repo_path ("None" | "tmp")
    framework,         \* deploy: detected framework
    build_dir,         \* deploy: build_dir ("None" | "dir")
    files,             \* deploy: files of build_dir in os.walk order
    uploaded,          \* deploy: number of files whose upload returned
    bucket_name,       \* deploy / create_s3_bucket: the bucket worked on
    exc,               \* exception propagating out of the handler ("none" if none)
    rmtree_attempted,  \* deploy: the finally block called shutil.rmtree
    resources,         \* rollback: resources read from the state
    attempted,         \* rollback: bucket names passed to delete_s3_bucket, in order
    manifest,          \* detect_framework: the package.json under inspection
    detected,          \* detect_framework: its result for manifest
    upload,            \* the upload loop on one file: [framework, file, args]
    build,             \* build_project: its locals, its position and the
                       \* process's working directory
    repo,              \* build_project: the files of the clone it reads and writes
    trail              \* build_project: what earlier calls left, for comparison

persistVars == <<state_file, s3_buckets, s3_objects>>
procVars == <<cmd, pc, outcome, exit_code, echoed, calls, state_before, is_valid>>
cloneVars == <<temp_dir, tmp_on_disk, repo_path>>
deployVars == <<framework, build_dir, files, uploaded, rmtree_attempted>>
rollbackVars == <<resources, attempted>>
detectVars == <<manifest, detected>>
publishVars == <<upload>>
buildVars == <<build, repo, trail>>
\* State of the helper functions that are also examined on their own.
funcVars == <<detectVars, publishVars, buildVars>>

\* The upload loop: the framework of the deployment, the name of the file
\* (split at its dots) and the ExtraArgs handed to upload_file.
up_framework == upload.framework
file_name == upload.file
extra_args == upload.args

\* build_project: position, the process's current working directory, the
\* locals current_dir and build_dir, the argument framework, the value
\* returned, whether the except clause ran and whether the search of lines
\* 173-211 ran.
b_pc == build.pc
cwd == build.cwd
current_dir == build.current_dir
b_framework == build.framework
b_build_dir == build.build_dir
b_result == build.result
b_raised == build.raised
probed == build.probed

\* The clone: what reading package.json's scripts gives, what angular.json
\* holds, next.config.js and next.config.js.bak as [exists, content], the
\* directories found after the build, and os.listdir of the first probed
\* directory that exists.
package_json == repo.package_json
angular_json == repo.angular_json
next_config == repo.next_config
next_backup == repo.next_backup
fs == repo.fs
subdirs == repo.subdirs

\* cwd before build_project was first called, next.config.js as cloned, as
\* the current call found it and as the first completed build left it, the
\* files written by the current call in order, and the number of calls.
caller_dir == trail.caller_dir
config_orig == trail.config_orig
config_entry == trail.config_entry
config_first == trail.config_first
writes == trail.writes
runs == trail.runs

vars == <<persistVars, procVars, cloneVars, deployVars, rollbackVars,
          bucket_name, exc, funcVars>>

\* ------------------------------------------------------ output and call logs
Msg(text, arg) == [msg |-> text, arg |-> arg]
Call(op, bucket, key) == [op |-> op, bucket |-> bucket, key |-> key]

\* ------------------------------------------------------ config.py: state file
EmptyState == <<>>
NoStateFile == [exists |-> FALSE, resources |-> EmptyState]

\* load_state: {"resources": []} when no file exists, else the file's content.
load_state(f) == IF ~f.exists THEN EmptyState ELSE f.resources

\* A save_state that keeps only the newest record.
save_stateNewestOnly(rs) ==
    [exists |-> TRUE, resources |-> IF rs = <<>> THEN rs ELSE <<rs[Len(rs)]>>]

\* save_state: the file is (re)written with the given resources.
save_state(rs) == [exists |-> TRUE, resources |-> rs]

\* A load_state that writes the default state when it finds no file.
StateAfterLoadCreates(f) == IF ~f.exists THEN save_state(EmptyState) ELSE f

\* load_state opens the file for reading only: the file is what it was.
StateAfterLoad(f) == f

Resource(type, name) == [type |-> type, name |-> name]

\* Sequence filter/map helpers for the list comprehensions of cli.py.
RECURSIVE BucketsOf(_)
BucketsOf(rs) ==
    IF rs = <<>> THEN <<>>
    ELSE IF Head(rs).type = "s3_bucket"
         THEN <<Head(rs).name>> \o BucketsOf(Tail(rs))
         ELSE BucketsOf(Tail(rs))

\* ------------------------------------------------- aws.py: credential check
\* The environment's answer to the identity check: boto3.Session fails
\* ("no_session", get_aws_session returns None), get_caller_identity raises
\* ("invalid"), or it answers ("valid").
CredentialCases == {"no_session", "invalid", "valid"}

\* verify_aws_credentials: (is_valid, made an STS call).
verify_aws_credentials(cred) ==
    [is_valid |-> (cred = "valid"), sts_called |-> (cred # "no_session")]

StsCalls(v) ==
    IF v.sts_called THEN <<Call("sts:GetCallerIdentity", NoBucket, 0)>> ELSE <<>>

\* ------------------------------------------- github.py: detect_framework
\* A package.json as detect_framework sees it.  file: whether the manifest is
\* missing, present but not valid JSON, or parsed.  top: whether the parsed
\* value is a JSON object or some other JSON value (list, string, number,
\* null).  Each dependency section is absent, an object (a dict, of which
\* only the key set matters to the `in` tests), or another JSON value.
MarkerNames == {"next", "react", "react-dom", "@angular/core"}
DepNames == MarkerNames \cup {"lodash"}
Sections ==
    {[shape |-> "absent", names |-> {}], [shape |-> "other", names |-> {}]}
        \cup {[shape |-> "object", names |-> n] : n \in SUBSET DepNames}
AbsentSection == [shape |-> "absent", names |-> {}]
Manifest(file, top, deps, dev) ==
    [file |-> file, top |-> top, dependencies |-> deps, devDependencies |-> dev]
Manifests ==
    {Manifest("missing", "none", AbsentSection, AbsentSection),
     Manifest("unparseable", "none", AbsentSection, AbsentSection),
     Manifest("parsed", "other", AbsentSection, AbsentSection)}
        \cup {Manifest("parsed", "object", d, v) : d \in Sections, v \in Sections}

Returned(v) == [raised |-> "none", value |-> v]
Raised(e) == [raised |-> e, value |-> "none"]

\* package_json.get(key, {}): the section's value, {} when the key is absent.
GetSection(sec) ==
    IF sec.shape = "absent" THEN [shape |-> "object", names |-> {}] ELSE sec

\* The chain of lines 57-65 with the react test placed before the next test.
DetectTryBodyReactFirst(m) ==
    IF m.file = "unparseable" THEN Raised("JSONDecodeError")
    ELSE IF m.top # "object" THEN Raised("AttributeError")
    ELSE LET deps == GetSection(m.dependencies)
             dev == GetSection(m.devDependencies)
         IN IF deps.shape # "object" \/ dev.shape # "object"
            THEN Raised("TypeError")
            ELSE LET dependencies == deps.names \cup dev.names
                 IN IF "react" \in dependencies /\ "react-dom" \in dependencies
                         THEN Returned("react")
                    ELSE IF "next" \in dependencies THEN Returned("nextjs")
                    ELSE IF "@angular/core" \in dependencies
                         THEN Returned("angular")
                    ELSE Returned("unknown")

\* Lines 52-65, the body of the try block: json.load raises on invalid JSON,
\* .get raises AttributeError on a value that is no dict, and {**a, **b}
\* raises TypeError when a or b is no mapping; the merged dict's keys are the
\* union of the two key sets.
DetectTryBody(m) ==
    IF m.file = "unparseable" THEN Raised("JSONDecodeError")
    ELSE IF m.top # "object" THEN Raised("AttributeError")
    ELSE LET deps == GetSection(m.dependencies)
             dev == GetSection(m.devDependencies)
         IN IF deps.shape # "object" \/ dev.shape # "object"
            THEN Raised("TypeError")
            ELSE LET dependencies == deps.names \cup dev.names
                 IN IF "next" \in dependencies THEN Returned("nextjs")
                    ELSE IF "react" \in dependencies /\ "react-dom" \in dependencies
                         THEN Returned("react")
                    ELSE IF "@angular/core" \in dependencies
                         THEN Returned("angular")
                    ELSE Returned("unknown")

\* `except json.JSONDecodeError` alone.
DetectCatchesJsonOnly(e) == e = "JSONDecodeError"

\* Line 67: `except Exception` catches every exception the body raises.
DetectCatches(e) == e \in {"JSONDecodeError", "AttributeError", "TypeError"}

detect_framework(m) ==
    IF m.file = "missing" THEN Returned("unknown")
    ELSE LET r == DetectTryBody(m)
         IN IF r.raised # "none" /\ DetectCatches(r.raised)
            THEN Returned("unknown")
            ELSE r

\* ---------------------------------------------------------------- the CLI
\* --------------------------------------------- cli.py: upload arguments
\* A file name is the sequence of its parts between dots: "app.min.js" is
\* <<"app", "min", "js">>, "LICENSE" is <<"LICENSE">>, ".html" is <<"", "html">>.
\* A content type "a/b" is the record [type |-> "a", subtype |-> "b"].
ContentType(t, sub) == [type |-> t, subtype |-> sub]

\* ExtraArgs of bucket.upload_file; CacheControl is "absent" when the key is
\* not passed.
ExtraArgs(ct, cc) == [ContentType |-> ct, CacheControl |-> cc]
NoArgs == ExtraArgs(ContentType("none", "none"), "absent")

\* file.endswith('.' + ext): the part after the last dot is ext, and there
\* is a dot.  The comparison is case-sensitive.
EndsWith(file, ext) == Len(file) >= 2 /\ file[Len(file)] = ext

\* file.split(".")[-1]
LastPart(file) == file[Len(file)]

\* str.lower() on the extensions that occur.
Lower(ext) ==
    CASE ext = "HTML" -> "html"
      [] ext = "JS"   -> "js"
      [] ext = "PNG"  -> "png"
      [] OTHER        -> ext

ImageExts == {"png", "jpg", "jpeg", "gif"}
FontExts == {"woff", "woff2", "eot", "ttf", "otf"}

NoCache == "no-cache, no-store, must-revalidate"
OneYear == "max-age=31536000"
OneDay == "max-age=86400"

\* A variant of SpaContentType whose default is the one of the other branch.
SpaContentTypeHtmlDefault(file) ==
    IF EndsWith(file, "html") THEN ContentType("text", "html")
    ELSE IF EndsWith(file, "css") THEN ContentType("text", "css")
    ELSE IF EndsWith(file, "js") THEN ContentType("application", "javascript")
    ELSE IF EndsWith(file, "json") THEN ContentType("application", "json")
    ELSE IF EndsWith(file, "svg") THEN ContentType("image", "svg+xml")
    ELSE IF \E e \in ImageExts : EndsWith(file, e)
         THEN ContentType("image", Lower(LastPart(file)))
    ELSE IF \E e \in FontExts : EndsWith(file, e)
         THEN ContentType("font", Lower(LastPart(file)))
    ELSE ContentType("text", "html")

\* content_type of the loop taken for react, angular and nextjs.
SpaContentType(file) ==
    IF EndsWith(file, "html") THEN ContentType("text", "html")
    ELSE IF EndsWith(file, "css") THEN ContentType("text", "css")
    ELSE IF EndsWith(file, "js") THEN ContentType("application", "javascript")
    ELSE IF EndsWith(file, "json") THEN ContentType("application", "json")
    ELSE IF EndsWith(file, "svg") THEN ContentType("image", "svg+xml")
    ELSE IF \E e \in ImageExts : EndsWith(file, e)
         THEN ContentType("image", Lower(LastPart(file)))
    ELSE IF \E e \in FontExts : EndsWith(file, e)
         THEN ContentType("font", Lower(LastPart(file)))
    ELSE ContentType("text", "plain")

\* A variant of SpaCacheControl that gives style sheets the default.
SpaCacheControlCssDefault(file) ==
    IF EndsWith(file, "html") THEN NoCache
    ELSE IF EndsWith(file, "css") THEN OneDay
    ELSE IF EndsWith(file, "js") THEN OneYear
    ELSE IF EndsWith(file, "json") THEN OneDay
    ELSE IF EndsWith(file, "svg") THEN OneDay
    ELSE IF \E e \in ImageExts : EndsWith(file, e) THEN OneYear
    ELSE IF \E e \in FontExts : EndsWith(file, e) THEN OneYear
    ELSE OneDay

\* cache_control of the same loop: the .json and .svg branches and the
\* fall-through leave it at its initial value, one day.
SpaCacheControl(file) ==
    IF EndsWith(file, "html") THEN NoCache
    ELSE IF EndsWith(file, "css") THEN OneYear
    ELSE IF EndsWith(file, "js") THEN OneYear
    ELSE IF EndsWith(file, "json") THEN OneDay
    ELSE IF EndsWith(file, "svg") THEN OneDay
    ELSE IF \E e \in ImageExts : EndsWith(file, e) THEN OneYear
    ELSE IF \E e \in FontExts : EndsWith(file, e) THEN OneYear
    ELSE OneDay

\* content_type of the loop for any other framework.
StandardContentType(file) ==
    IF EndsWith(file, "css") THEN ContentType("text", "css")
    ELSE IF EndsWith(file, "js") THEN ContentType("application", "javascript")
    ELSE IF EndsWith(file, "json") THEN ContentType("application", "json")
    ELSE IF \E e \in ImageExts : EndsWith(file, e)
         THEN ContentType("image", LastPart(file))
    ELSE ContentType("text", "html")

SpaFrameworks == {"react", "angular", "nextjs"}

\* The ExtraArgs deploy passes to upload_file for one file.
UploadArgs(fw, file) ==
    IF fw \in SpaFrameworks
    THEN ExtraArgs(SpaContentType(file), SpaCacheControl(file))
    ELSE ExtraArgs(StandardContentType(file), "absent")

\* -------------------------------------------- github.py: build_project
\* Bounds of the repositories given to build_project.
MaxTokens == 2
MaxSubdirs == 2
MaxRuns == 2

\* A path below the repository: base names the directory, sub = 0 means the
\* directory itself and sub = k its k-th subdirectory in os.listdir order.
\* Path(".", 0) is repo_path.
Path(base, sub) == [base |-> base, sub |-> sub]
None == Path("None", 0)

\* A text file of the repository.  A content is a sequence of fragments.
File(content) == [exists |-> TRUE, content |-> content]
AbsentFile == [exists |-> FALSE, content |-> <<>>]
\* config_first while no call has got past its build command.
FirstPending == [exists |-> FALSE, content |-> <<"pending">>]

ModuleExports == "module.exports = {"
OutputKey == "output:"
OutputExport == "\n  output: export,"
ConfigTokens == {ModuleExports, OutputKey}
ConfigContents == UNION {[1..n -> ConfigTokens] : n \in 0..MaxTokens}

\* 'output:' in config_content (line 108); the inserted text contains it.
HasOutput(content) ==
    \E i \in 1..Len(content) : content[i] \in {OutputKey, OutputExport}

\* 'module.exports = {' in config_content (line 114)
HasModuleExports(content) ==
    \E i \in 1..Len(content) : content[i] = ModuleExports

\* str.replace of lines 115-117: every 'module.exports = {' is followed by
\* the output setting.
RECURSIVE AddOutput(_)
AddOutput(content) ==
    IF content = <<>> THEN <<>>
    ELSE IF Head(content) = ModuleExports
         THEN <<ModuleExports, OutputExport>> \o AddOutput(Tail(content))
         ELSE <<Head(content)>> \o AddOutput(Tail(content))

Written(name, content) == [file |-> name, content |-> content]

\* The patch without the test for an output setting already there.
NextConfigPatchUnchecked(cfg, bak) ==
    IF ~cfg.exists
    THEN [config |-> cfg, backup |-> bak, writes |-> <<>>]
    ELSE IF HasModuleExports(cfg.content)
         THEN [config |-> File(AddOutput(cfg.content)),
               backup |-> File(cfg.content),
               writes |-> <<Written("next.config.js.bak", cfg.content),
                            Written("next.config.js", AddOutput(cfg.content))>>]
         ELSE [config |-> cfg,
               backup |-> File(cfg.content),
               writes |-> <<Written("next.config.js.bak", cfg.content)>>]

\* Lines 102-119: next.config.js without an output setting is copied to
\* next.config.js.bak and, when it holds 'module.exports = {', rewritten.
NextConfigPatch(cfg, bak) ==
    IF ~cfg.exists \/ HasOutput(cfg.content)
    THEN [config |-> cfg, backup |-> bak, writes |-> <<>>]
    ELSE IF HasModuleExports(cfg.content)
         THEN [config |-> File(AddOutput(cfg.content)),
               backup |-> File(cfg.content),
               writes |-> <<Written("next.config.js.bak", cfg.content),
                            Written("next.config.js", AddOutput(cfg.content))>>]
         ELSE [config |-> cfg,
               backup |-> File(cfg.content),
               writes |-> <<Written("next.config.js.bak", cfg.content)>>]

\* Reading package.json in the nextjs branch (lines 91-94): the scripts hold
\* an export script, or none, or the read raises (scripts is not a mapping,
\* the file changed under npm install).
PackageJsons == {"export", "no_export", "raises"}

\* angular.json: missing, not JSON, naming a defaultProject, holding only
\* projects, or holding neither.
AngularJsons == {"absent", "invalid", "defaultProject", "projects", "empty"}

\* `import json` at line 90 makes json a local name of build_project; it is
\* bound only when that line has run, which is in the nextjs branch.
JsonBound(fw) == fw = "nextjs"

\* Lines 136-153: project_name.  json.load through an unbound json raises
\* UnboundLocalError, which the except of line 152 catches like a parse
\* error; project_name stays None.
AngularProjectName(aj, json_bound) ==
    IF aj = "absent" THEN "None"
    ELSE IF ~json_bound THEN "None"
    ELSE IF aj \in {"defaultProject", "projects"} THEN "project"
    ELSE "None"

\* The directories of lines 177-182.
ProbeDirs == {"build", "dist", ".next", "public"}

\* The search with dist looked at first.
ProbeOrderDistFirst == <<"dist", "build", ".next", "public">>

\* possible_dirs, in the order of lines 177-182.
ProbeOrder == <<"build", "dist", ".next", "public">>

Kinds == {"absent", "file", "dir"}

\* What is on disk below the repository once the build command has run.
\* out, .next/static and dist/<project> are looked at only by the branch of
\* their framework and are left absent for the others.
FsAfterBuild(fw, aj) ==
    {f \in [kind : [ProbeDirs -> Kinds], index : [ProbeDirs -> BOOLEAN],
            out : BOOLEAN, next_static : BOOLEAN, dist_project : BOOLEAN,
            root_index : BOOLEAN] :
        /\ \A d \in ProbeDirs : f.index[d] => f.kind[d] = "dir"
        /\ f.out => fw = "nextjs"
        /\ f.next_static => (fw = "nextjs" /\ f.kind[".next"] = "dir")
        /\ f.dist_project =>
               (fw = "angular" /\ aj \in {"defaultProject", "projects"}
                  /\ f.kind["dist"] = "dir")}

NoFs ==
    [kind |-> [d \in ProbeDirs |-> "absent"], index |-> [d \in ProbeDirs |-> FALSE],
     out |-> FALSE, next_static |-> FALSE, dist_project |-> FALSE,
     root_index |-> FALSE]

\* os.listdir filtered by isdir (lines 193-194): for each subdirectory, in
\* listing order, whether it holds index.html.
Listings == UNION {[1..n -> BOOLEAN] : n \in 0..MaxSubdirs}

\* os.path.exists
Exists(f, path) ==
    CASE path.base = "out" -> f.out
      [] path.base = ".next/static" -> f.next_static
      [] path.base = "dist/project" -> f.dist_project
      [] path.base \in ProbeDirs -> f.kind[path.base] # "absent"
      [] OTHER -> FALSE

\* Lines 124-167: the expected build directory of the framework.
ExpectedDir(fw, project_name, f) ==
    CASE fw = "nextjs" ->
             IF ~f.out /\ f.next_static THEN Path(".next/static", 0)
             ELSE Path("out", 0)
      [] fw = "react" -> Path("build", 0)
      [] fw = "angular" ->
             IF project_name # "None" /\ f.dist_project
             THEN Path("dist/project", 0)
             ELSE Path("dist", 0)

\* Lines 184-211: the first probed directory that is a directory decides.
RECURSIVE ProbeFrom(_, _, _)
ProbeFrom(i, f, subs) ==
    IF i > Len(ProbeOrder)
    THEN IF f.root_index THEN Path(".", 0) ELSE None
    ELSE LET d == ProbeOrder[i]
             hits == {k \in 1..Len(subs) : subs[k]}
         IN IF f.kind[d] = "dir"
            THEN IF f.index[d] THEN Path(d, 0)
                 ELSE IF hits # {}
                      THEN Path(d, CHOOSE k \in hits : \A h \in hits : k <= h)
                      ELSE Path(d, 0)
            ELSE ProbeFrom(i + 1, f, subs)

\* The finally clause left out.
FinallyChdirSkipped(now, saved) == now

\* Lines 219-220: os.chdir(current_dir)
FinallyChdir(now, saved) == saved

Commands == {"verify", "list", "init", "deploy", "rollback"}
DefaultManifest == Manifest("missing", "none", AbsentSection, AbsentSection)

\* No command has run yet: no state file, no bucket, every local unset.
InitCli ==
    /\ state_file = NoStateFile
    /\ s3_buckets = {}
    /\ s3_objects = [b \in BucketNames |-> {}]
    /\ cmd = "none"
    /\ pc = "idle"
    /\ outcome = "none"
    /\ exit_code = 0
    /\ echoed = <<>>
    /\ calls = <<>>
    /\ state_before = NoStateFile
    /\ is_valid = FALSE
    /\ temp_dir = "unbound"
    /\ tmp_on_disk = FALSE
    /\ repo_path = "None"
    /\ framework = "none"
    /\ build_dir = "None"
    /\ files = <<>>
    /\ uploaded = 0
    /\ bucket_name = NoBucket
    /\ exc = "none"
    /\ rmtree_attempted = FALSE
    /\ resources = <<>>
    /\ attempted = <<>>

\* detect_framework has not been called on its own.
IdleDetect ==
    /\ manifest = DefaultManifest
    /\ detected = Returned("none")

\* The upload loop is not being examined on its own.
IdlePublish == upload = [framework |-> "none", file |-> <<>>, args |-> NoArgs]

\* The locals of build_project before a call.
NotCalled(dir, fw) ==
    [pc |-> "idle", cwd |-> dir, current_dir |-> "unset", framework |-> fw,
     build_dir |-> None, result |-> None, raised |-> FALSE, probed |-> FALSE]

\* A clone as it is before any build.
Cloned(pkg, aj, cfg) ==
    [package_json |-> pkg, angular_json |-> aj, next_config |-> cfg,
     next_backup |-> AbsentFile, fs |-> NoFs, subdirs |-> <<>>]

NoTrail(dir, cfg) ==
    [caller_dir |-> dir, config_orig |-> cfg, config_entry |-> cfg,
     config_first |-> FirstPending, writes |-> <<>>, runs |-> 0]

\* build_project is not being examined on its own.
IdleBuild ==
    /\ build = NotCalled("home", "none")
    /\ repo = Cloned("no_export", "absent", AbsentFile)
    /\ trail = NoTrail("home", AbsentFile)

Init ==
    /\ InitCli
    /\ IdleDetect
    /\ IdlePublish
    /\ IdleBuild

\* The command returns to click, which ends the process: status 0 after a
\* normal return of the handler, status 1 after an uncaught exception.
Finish(o, code) ==
    /\ pc' = "done"
    /\ outcome' = o
    /\ exit_code' = code

\* The user starts a command in a fresh process: every local is unset.
Start ==
    /\ pc \in {"idle", "done"}
    /\ \E c \in Commands :
        /\ cmd' = c
        /\ pc' = c
    /\ outcome' = "running"
    /\ exit_code' = 0
    /\ echoed' = <<>>
    /\ calls' = <<>>
    /\ state_before' = state_file
    /\ is_valid' = FALSE
    /\ temp_dir' = "unbound"
    /\ tmp_on_disk' = FALSE
    /\ repo_path' = "None"
    /\ framework' = "none"
    /\ build_dir' = "None"
    /\ files' = <<>>
    /\ uploaded' = 0
    /\ bucket_name' = NoBucket
    /\ exc' = "none"
    /\ rmtree_attempted' = FALSE
    /\ resources' = <<>>
    /\ attempted' = <<>>
    /\ UNCHANGED <<persistVars, funcVars>>

\* cli.py verify: the credential check, then the recorded resources.
Verify ==
    /\ pc = "verify"
    /\ \E cred \in CredentialCases :
        LET v == verify_aws_credentials(cred)
            rs == load_state(state_file)
        IN /\ calls' = calls \o StsCalls(v)
           /\ is_valid' = v.is_valid
           /\ IF ~v.is_valid
              THEN /\ echoed' = echoed \o <<Msg("AWS credentials verification failed", 0)>>
                   /\ Finish("credentials_invalid", 0)
              ELSE /\ echoed' = echoed \o
                        <<Msg("AWS credentials verified successfully", 0),
                          IF rs # <<>> THEN Msg("Existing resources", Len(rs))
                          ELSE Msg("No resources have been created yet.", 0)>>
                   /\ Finish("ok", 0)
           /\ state_file' = IF v.is_valid THEN StateAfterLoad(state_file) ELSE state_file
    /\ UNCHANGED <<s3_buckets, s3_objects, cmd, state_before, cloneVars, deployVars,
                   rollbackVars, bucket_name, exc, funcVars>>

HeadBucketCalls(names) ==
    [i \in 1..Len(names) |-> Call("s3:HeadBucket", names[i], 0)]

\* cli.py list -> resources.py display_resources: without a session nothing is
\* queried; otherwise each recorded bucket is looked up with head_bucket (an
\* error of the lookup only changes the status that is printed).
List ==
    /\ pc = "list"
    /\ \E session_ok \in BOOLEAN :
        IF ~session_ok
        THEN /\ echoed' = echoed \o <<Msg("No resources found or cannot connect to AWS.", 0)>>
             /\ calls' = calls
             /\ UNCHANGED state_file
        ELSE /\ state_file' = StateAfterLoad(state_file)
             /\ echoed' = echoed \o
                    (IF BucketsOf(load_state(state_file)) # <<>>
                     THEN <<Msg("S3 Buckets", Len(BucketsOf(load_state(state_file))))>>
                     ELSE <<>>)
             /\ calls' = calls \o HeadBucketCalls(BucketsOf(load_state(state_file)))
    /\ Finish("ok", 0)
    /\ UNCHANGED <<s3_buckets, s3_objects, cmd, state_before, is_valid, cloneVars,
                   deployVars, rollbackVars, bucket_name, exc, funcVars>>

\* How a provider call ends: it returns, it raises botocore's ClientError (the
\* service answered with an error), or it raises something else (no
\* connection, timeout, no credentials: BotoCoreError and its kin).
CallResults == {"ok", "ClientError", "OtherError"}

\* cli.py init, lines 62-74: the credential check.
InitVerify ==
    /\ pc = "init"
    /\ \E cred \in CredentialCases :
        LET v == verify_aws_credentials(cred)
        IN /\ calls' = calls \o StsCalls(v)
           /\ is_valid' = v.is_valid
           /\ IF ~v.is_valid
              THEN /\ echoed' = echoed \o <<Msg("AWS credentials verification failed", 0)>>
                   /\ Finish("credentials_invalid", 0)
              ELSE /\ echoed' = echoed \o <<Msg("AWS credentials verified successfully", 0)>>
                   /\ pc' = "init_confirm"
                   /\ UNCHANGED <<outcome, exit_code>>
    /\ UNCHANGED <<persistVars, cmd, state_before, cloneVars, deployVars,
                   rollbackVars, bucket_name, exc, funcVars>>

\* The message init prints when create_s3_bucket returned False (lines 84-85).
InitFailed ==
    /\ echoed' = echoed \o <<Msg("Failed to create infrastructure completely.", 0)>>
    /\ Finish("create_failed", 0)

\* cli.py init, lines 76-81, and create_s3_bucket up to its try block: a fresh
\* bucket name, the confirmation prompt, and the S3 client (None ends
\* create_s3_bucket with False).  Once the state holds MaxResources records the
\* user declines, which keeps the runs bounded.
InitConfirm ==
    /\ pc = "init_confirm"
    /\ \E name \in BucketNames, answer \in BOOLEAN, client_ok \in BOOLEAN :
        /\ answer => Len(load_state(state_file)) < MaxResources
        /\ IF ~answer
           THEN /\ Finish("declined", 0)
                /\ UNCHANGED <<echoed, bucket_name>>
           ELSE IF ~client_ok
           THEN /\ InitFailed
                /\ UNCHANGED bucket_name
           ELSE /\ bucket_name' = name
                /\ pc' = "create_bucket"
                /\ UNCHANGED <<echoed, outcome, exit_code>>
    /\ UNCHANGED <<persistVars, cmd, calls, state_before, is_valid, cloneVars,
                   deployVars, rollbackVars, exc, funcVars>>

\* An exception nothing catches leaves the handler: traceback, status 1.
Propagate(e, o) ==
    /\ exc' = e
    /\ Finish(o, 1)

\* create_s3_bucket, lines 82-85: s3.create_bucket.  A name the provider
\* already holds is refused with a ClientError.
CreateBucket ==
    /\ pc = "create_bucket"
    /\ calls' = calls \o <<Call("s3:CreateBucket", bucket_name, 0)>>
    /\ \E r \in CallResults :
        /\ r = "ok" => bucket_name \notin s3_buckets
        /\ CASE r = "ok" ->
                  /\ s3_buckets' = s3_buckets \cup {bucket_name}
                  /\ s3_objects' = [s3_objects EXCEPT ![bucket_name] = {}]
                  /\ pc' = "put_bucket_website"
                  /\ UNCHANGED <<echoed, outcome, exit_code, exc>>
             [] r = "ClientError" ->
                  /\ InitFailed
                  /\ UNCHANGED <<s3_buckets, s3_objects, exc>>
             [] r = "OtherError" ->
                  /\ Propagate("OtherError", "create_raised")
                  /\ UNCHANGED <<s3_buckets, s3_objects, echoed>>
    /\ UNCHANGED <<state_file, cmd, state_before, is_valid, cloneVars, deployVars,
                   rollbackVars, bucket_name, funcVars>>

\* create_s3_bucket, lines 88-94: s3.put_bucket_website, inside the same try.
PutBucketWebsite ==
    /\ pc = "put_bucket_website"
    /\ calls' = calls \o <<Call("s3:PutBucketWebsite", bucket_name, 0)>>
    /\ \E r \in CallResults :
        CASE r = "ok" ->
               /\ pc' = "put_bucket_policy"
               /\ UNCHANGED <<echoed, outcome, exit_code, exc>>
          [] r = "ClientError" ->
               /\ InitFailed
               /\ UNCHANGED exc
          [] r = "OtherError" ->
               /\ Propagate("OtherError", "create_raised")
               /\ UNCHANGED echoed
    /\ UNCHANGED <<persistVars, cmd, state_before, is_valid, cloneVars, deployVars,
                   rollbackVars, bucket_name, funcVars>>

\* create_s3_bucket, lines 97-130: put_public_access_block and
\* put_bucket_policy, each in a try of its own that turns a ClientError into a
\* warning.
PutBucketPolicy ==
    /\ pc = "put_bucket_policy"
    /\ \E r1 \in CallResults, r2 \in CallResults :
        IF r1 = "OtherError"
        THEN /\ calls' = calls \o <<Call("s3:PutPublicAccessBlock", bucket_name, 0)>>
             /\ Propagate("OtherError", "create_raised")
             /\ UNCHANGED echoed
        ELSE /\ calls' = calls \o <<Call("s3:PutPublicAccessBlock", bucket_name, 0),
                                   Call("s3:PutBucketPolicy", bucket_name, 0)>>
             /\ IF r2 = "OtherError"
                THEN /\ Propagate("OtherError", "create_raised")
                     /\ UNCHANGED echoed
                ELSE /\ echoed' = echoed \o
                          (IF r1 = "ClientError"
                           THEN <<Msg("Warning: Couldn't disable block public access settings", 0)>>
                           ELSE <<>>) \o
                          (IF r2 = "ClientError"
                           THEN <<Msg("Warning: Couldn't set bucket policy", 0)>>
                           ELSE <<>>)
                     /\ pc' = "record_bucket"
                     /\ UNCHANGED <<outcome, exit_code, exc>>
    /\ UNCHANGED <<persistVars, cmd, state_before, is_valid, cloneVars, deployVars,
                   rollbackVars, bucket_name, funcVars>>

\* The record put in front of the loaded state.
AppendBucketFirst(rs, name) == <<Resource("s3_bucket", name)>> \o rs

\* create_s3_bucket, lines 133-138: the record appended to the loaded state.
AppendBucket(rs, name) == Append(rs, Resource("s3_bucket", name))

\* create_s3_bucket, lines 133-149, and init, lines 82-83: the bucket is
\* recorded and the state saved.  A write that fails raises OSError, which the
\* `except ClientError` of create_s3_bucket does not catch.
RecordBucket ==
    /\ pc = "record_bucket"
    /\ \E write_ok \in BOOLEAN :
        IF write_ok
        THEN /\ state_file' = save_state(AppendBucket(load_state(state_file), bucket_name))
             /\ echoed' = echoed \o <<Msg("Created S3 bucket", bucket_name),
                                      Msg("Infrastructure setup complete.", 0)>>
             /\ Finish("ok", 0)
             /\ UNCHANGED exc
        ELSE /\ Propagate("OSError", "save_raised")
             /\ UNCHANGED <<state_file, echoed>>
    /\ UNCHANGED <<s3_buckets, s3_objects, cmd, calls, state_before, is_valid,
                   cloneVars, deployVars, rollbackVars, bucket_name, funcVars>>

\* ------------------------------------------------------------ cli.py deploy
\* Lines 98-103: the credential check.
DeployVerify ==
    /\ pc = "deploy"
    /\ \E cred \in CredentialCases :
        LET v == verify_aws_credentials(cred)
        IN /\ calls' = calls \o StsCalls(v)
           /\ is_valid' = v.is_valid
           /\ IF ~v.is_valid
              THEN /\ echoed' = echoed \o <<Msg("AWS credentials verification failed", 0)>>
                   /\ Finish("credentials_invalid", 0)
              ELSE /\ pc' = "deploy_load_state"
                   /\ UNCHANGED <<echoed, outcome, exit_code>>
    /\ UNCHANGED <<persistVars, cmd, state_before, cloneVars, deployVars,
                   rollbackVars, bucket_name, exc, funcVars>>

\* buckets[-1] in place of buckets[0].
LastBucket(buckets) == buckets[Len(buckets)]

\* Line 113: the first recorded bucket.
FirstBucket(buckets) == buckets[1]

\* Lines 105-113: the bucket to deploy to is read from the state.
DeployLoadState ==
    /\ pc = "deploy_load_state"
    /\ LET buckets == BucketsOf(load_state(state_file))
       IN IF buckets = <<>>
          THEN /\ echoed' = echoed \o <<Msg("No S3 bucket found.", 0)>>
               /\ Finish("no_bucket", 0)
               /\ UNCHANGED bucket_name
          ELSE /\ bucket_name' = FirstBucket(buckets)
               /\ pc' = "clone_mkdtemp"
               /\ UNCHANGED <<echoed, outcome, exit_code>>
    /\ state_file' = StateAfterLoad(state_file)
    /\ UNCHANGED <<s3_buckets, s3_objects, cmd, calls, state_before, is_valid,
                   cloneVars, deployVars, rollbackVars, exc, funcVars>>

\* ------------------------------------------ github.py: clone_repository
\* Line 20: tempfile.mkdtemp.  When it raises, temp_dir is never bound.
CloneMkdtemp ==
    /\ pc = "clone_mkdtemp"
    /\ \E ok \in BOOLEAN :
        IF ok
        THEN /\ temp_dir' = "tmp"
             /\ tmp_on_disk' = TRUE
             /\ pc' = "clone_from"
             /\ UNCHANGED exc
        ELSE /\ exc' = "OSError"
             /\ pc' = "clone_except"
             /\ UNCHANGED <<temp_dir, tmp_on_disk>>
    /\ UNCHANGED <<persistVars, cmd, outcome, exit_code, echoed, calls, state_before,
                   is_valid, repo_path, deployVars, rollbackVars, bucket_name,
                   funcVars>>

\* Lines 23-31: git.Repo.clone_from; on success (temp_dir, repo_name) is
\* returned and deploy goes on (cli.py 116-120).
CloneFrom ==
    /\ pc = "clone_from"
    /\ echoed' = echoed \o <<Msg("Cloning repository", 0)>>
    /\ \E ok \in BOOLEAN :
        IF ok
        THEN /\ repo_path' = temp_dir
             /\ pc' = "deploy_detect"
             /\ UNCHANGED exc
        ELSE /\ exc' = "GitCommandError"
             /\ pc' = "clone_except"
             /\ UNCHANGED repo_path
    /\ UNCHANGED <<persistVars, cmd, outcome, exit_code, calls, state_before,
                   is_valid, temp_dir, tmp_on_disk, deployVars, rollbackVars,
                   bucket_name, funcVars>>

\* Results of shutil.rmtree.
RmtreeResults == {"ok", "PermissionError", "OSError"}

\* Lines 33-37, the except block: os.path.exists(temp_dir) reads temp_dir,
\* which raises UnboundLocalError when mkdtemp never bound it; shutil.rmtree
\* may raise in its turn; otherwise (None, None) is returned.
CloneExceptBlock(td, on_disk, rm) ==
    IF td = "unbound"
    THEN [raised |-> "UnboundLocalError", on_disk |-> on_disk]
    ELSE IF on_disk
    THEN IF rm = "ok"
         THEN [raised |-> "none", on_disk |-> FALSE]
         ELSE [raised |-> rm, on_disk |-> TRUE]
    ELSE [raised |-> "none", on_disk |-> on_disk]

\* The except block runs; deploy returns when it gets (None, None) (cli.py
\* 117-118), and an exception raised inside the block leaves deploy, which
\* has not entered its try yet.
CloneExcept ==
    /\ pc = "clone_except"
    /\ echoed' = echoed \o <<Msg("Error cloning repository", 0)>>
    /\ \E rm \in RmtreeResults :
        LET r == CloneExceptBlock(temp_dir, tmp_on_disk, rm)
        IN /\ tmp_on_disk' = r.on_disk
           /\ IF r.raised # "none"
              THEN Propagate(r.raised, "clone_raised")
              ELSE /\ exc' = "none"
                   /\ Finish("clone_failed", 0)
    /\ UNCHANGED <<persistVars, cmd, calls, state_before, is_valid, temp_dir,
                   repo_path, deployVars, rollbackVars, bucket_name, funcVars>>

\* -------------------------------------------- cli.py deploy, the try block
\* Every way out of the try block of lines 120-249 (a return, an exception,
\* falling off its end) passes through the finally block of lines 251-261.
LeaveTry == "deploy_finally"

\* A guard that lets every detected value through.
IsUnknownNever(fw) == FALSE

\* Line 123: the guard in front of the build.
IsUnknown(fw) == fw = "unknown"

\* What detect_framework can answer, over every package.json a clone may hold.
DetectOutcomes == {detect_framework(m) : m \in Manifests}

\* Lines 121-127: detect_framework on the clone; an unknown framework ends
\* the deploy.
DeployDetect ==
    /\ pc = "deploy_detect"
    /\ \E r \in DetectOutcomes :
           IF r.raised # "none"
           THEN /\ exc' = r.raised
                /\ outcome' = "exception"
                /\ pc' = LeaveTry
                /\ UNCHANGED <<framework, echoed>>
           ELSE /\ framework' = r.value
                /\ exc' = exc
                /\ IF IsUnknown(r.value)
                   THEN /\ echoed' = echoed \o
                             <<Msg("Could not detect a supported framework", 0)>>
                        /\ outcome' = "framework_unknown"
                        /\ pc' = LeaveTry
                   ELSE /\ echoed' = echoed \o <<Msg("Detected framework", 0)>>
                        /\ pc' = "deploy_build"
                        /\ UNCHANGED outcome
    /\ UNCHANGED <<persistVars, cmd, exit_code, calls, state_before, is_valid,
                   cloneVars, build_dir, files, uploaded, rmtree_attempted,
                   rollbackVars, bucket_name, funcVars>>

\* The files of a build directory in the order os.walk yields them.
WalkOrders ==
    {w \in UNION {[1..n -> FileNames] : n \in 0..MaxFiles} :
        \A i, j \in DOMAIN w : i # j => w[i] # w[j]}

\* Lines 129-132: build_project returns the artifact directory, or None (it
\* catches its own exceptions); what the directory holds is the build's doing.
DeployBuild ==
    /\ pc = "deploy_build"
    /\ \E found \in BOOLEAN, w \in WalkOrders :
        IF ~found
        THEN /\ w = <<>>
             /\ outcome' = "no_artifact"
             /\ pc' = LeaveTry
             /\ UNCHANGED <<build_dir, files>>
        ELSE /\ build_dir' = "dir"
             /\ files' = w
             /\ pc' = "deploy_prepare"
             /\ UNCHANGED outcome
    /\ UNCHANGED <<persistVars, cmd, exit_code, echoed, calls, state_before,
                   is_valid, cloneVars, framework, uploaded, rmtree_attempted,
                   rollbackVars, bucket_name, exc, funcVars>>

\* Lines 134-177: the session and the bucket handle (get_aws_session returns
\* None on failure, and session.resource then raises AttributeError), and the
\* checks of index.html, which only print.
DeployPrepare ==
    /\ pc = "deploy_prepare"
    /\ echoed' = echoed \o <<Msg("Deploying to S3 bucket", bucket_name)>>
    /\ \E session_ok \in BOOLEAN :
        IF session_ok
        THEN /\ pc' = "deploy_upload"
             /\ UNCHANGED <<outcome, exc>>
        ELSE /\ exc' = "AttributeError"
             /\ outcome' = "exception"
             /\ pc' = LeaveTry
    /\ UNCHANGED <<persistVars, cmd, exit_code, calls, state_before, is_valid,
                   cloneVars, deployVars, rollbackVars, bucket_name, funcVars>>

\* The iteration with the line echoed only once upload_file has returned.
UploadStepEchoAfter(file, ok) ==
    /\ calls' = calls \o <<Call("s3:PutObject", bucket_name, file)>>
    /\ IF ok
       THEN /\ echoed' = echoed \o <<Msg("Uploading", file)>>
            /\ s3_objects' = [s3_objects EXCEPT ![bucket_name] = @ \cup {file}]
            /\ uploaded' = uploaded + 1
            /\ UNCHANGED <<pc, outcome, exc>>
       ELSE /\ exc' = "S3UploadFailedError"
            /\ outcome' = "upload_failed"
            /\ pc' = LeaveTry
            /\ UNCHANGED <<echoed, s3_objects, uploaded>>

\* Lines 179-218, one iteration of the walk: the line is echoed, then
\* bucket.upload_file is called; nothing catches what it raises, so the loop
\* ends there.  (Every framework deploy can hold here is react, angular or
\* nextjs, so the else branch of lines 219-242 is never taken.)
UploadStep(file, ok) ==
    /\ echoed' = echoed \o <<Msg("Uploading", file)>>
    /\ calls' = calls \o <<Call("s3:PutObject", bucket_name, file)>>
    /\ IF ok
       THEN /\ s3_objects' = [s3_objects EXCEPT ![bucket_name] = @ \cup {file}]
            /\ uploaded' = uploaded + 1
            /\ UNCHANGED <<pc, outcome, exc>>
       ELSE /\ exc' = "S3UploadFailedError"
            /\ outcome' = "upload_failed"
            /\ pc' = LeaveTry
            /\ UNCHANGED <<s3_objects, uploaded>>

DeployUpload ==
    /\ pc = "deploy_upload"
    /\ uploaded < Len(files)
    /\ \E ok \in BOOLEAN :
        /\ ok => bucket_name \in s3_buckets
        /\ UploadStep(files[uploaded + 1], ok)
    /\ UNCHANGED <<state_file, s3_buckets, cmd, exit_code, state_before, is_valid,
                   cloneVars, framework, build_dir, files, rmtree_attempted,
                   rollbackVars, bucket_name, funcVars>>

\* Lines 244-249: every file went up.
DeployComplete ==
    /\ pc = "deploy_upload"
    /\ uploaded = Len(files)
    /\ echoed' = echoed \o <<Msg("Deployment complete!", 0)>>
    /\ outcome' = "complete"
    /\ pc' = LeaveTry
    /\ UNCHANGED <<persistVars, cmd, exit_code, calls, state_before, is_valid,
                   cloneVars, deployVars, rollbackVars, bucket_name, exc, funcVars>>

\* `except PermissionError` alone.
CleanupCatchesPermissionOnly(e) == e = "PermissionError"

\* Line 257: `except (PermissionError, OSError)`.
CleanupCatches(e) == e \in {"PermissionError", "OSError"}

\* Lines 251-261, the finally block: the clone is removed when it is still
\* there; a failure of the removal that the except clause catches is a
\* warning.  Then the exception in flight, if any, goes on to click.
DeployFinally ==
    /\ pc = "deploy_finally"
    /\ IF repo_path # "None" /\ tmp_on_disk
       THEN /\ rmtree_attempted' = TRUE
            /\ \E rm \in RmtreeResults :
                IF rm = "ok"
                THEN /\ tmp_on_disk' = FALSE
                     /\ UNCHANGED <<echoed, exc>>
                ELSE /\ tmp_on_disk' = TRUE
                     /\ IF CleanupCatches(rm)
                        THEN /\ echoed' = echoed \o
                                  <<Msg("Warning: Could not fully clean up temporary files", 0)>>
                             /\ UNCHANGED exc
                        ELSE /\ exc' = rm
                             /\ UNCHANGED echoed
       ELSE UNCHANGED <<rmtree_attempted, tmp_on_disk, echoed, exc>>
    /\ pc' = "done"
    /\ exit_code' = IF exc' # "none" THEN 1 ELSE 0
    /\ UNCHANGED <<persistVars, cmd, outcome, calls, state_before, is_valid,
                   temp_dir, repo_path, framework, build_dir, files, uploaded,
                   rollbackVars, bucket_name, funcVars>>

\* ---------------------------------------------------------- cli.py rollback
\* Lines 271-276: the credential check.
RollbackVerify ==
    /\ pc = "rollback"
    /\ \E cred \in CredentialCases :
        LET v == verify_aws_credentials(cred)
        IN /\ calls' = calls \o StsCalls(v)
           /\ is_valid' = v.is_valid
           /\ IF ~v.is_valid
              THEN /\ echoed' = echoed \o <<Msg("AWS credentials verification failed", 0)>>
                   /\ Finish("credentials_invalid", 0)
              ELSE /\ pc' = "rollback_load_state"
                   /\ UNCHANGED <<echoed, outcome, exit_code>>
    /\ UNCHANGED <<persistVars, cmd, state_before, cloneVars, deployVars,
                   rollbackVars, bucket_name, exc, funcVars>>

\* `if resources is None`: never true of what load_state returns.
NothingToDeleteIsNone(rs) == FALSE

\* Line 282: `if not resources`.
NothingToDelete(rs) == rs = <<>>

\* Lines 278-284: the resources are read; with none the command ends.
\* resources holds what the loop of line 287 has yet to visit.
RollbackLoadState ==
    /\ pc = "rollback_load_state"
    /\ LET rs == load_state(state_file)
       IN /\ resources' = rs
          /\ IF NothingToDelete(rs)
             THEN /\ echoed' = echoed \o <<Msg("No resources found to delete.", 0)>>
                  /\ Finish("nothing_to_delete", 0)
             ELSE /\ pc' = "rollback_delete"
                  /\ UNCHANGED <<echoed, outcome, exit_code>>
    /\ state_file' = StateAfterLoad(state_file)
    /\ UNCHANGED <<s3_buckets, s3_objects, cmd, calls, state_before, is_valid,
                   cloneVars, deployVars, attempted, bucket_name, exc, funcVars>>

\* What the environment does to one delete_s3_bucket call: no S3 client; both
\* provider calls return; or the listing-and-deleting of the objects, or the
\* deletion of the bucket, raises a ClientError or some other exception.
DeleteCases ==
    {"no_client", "deleted", "objects_ClientError", "bucket_ClientError",
     "objects_OtherError", "bucket_OtherError"}

DeleteRaises(c) ==
    IF c \in {"objects_ClientError", "bucket_ClientError"} THEN "ClientError"
    ELSE IF c \in {"objects_OtherError", "bucket_OtherError"} THEN "OtherError"
    ELSE "none"

\* aws.py line 179: `except ClientError`.
DeleteCatches(e) == e = "ClientError"

\* aws.py delete_s3_bucket, lines 159-181: the provider calls it makes, what
\* is left at the provider, and the exception that leaves it, if any.
delete_s3_bucket(name, c, buckets, objects) ==
    LET emptied == [objects EXCEPT ![name] = {}]
        e == DeleteRaises(c)
    IN [calls |->
            IF c = "no_client" THEN <<>>
            ELSE IF c \in {"objects_ClientError", "objects_OtherError"}
            THEN <<Call("s3:DeleteObjects", name, 0)>>
            ELSE <<Call("s3:DeleteObjects", name, 0), Call("s3:DeleteBucket", name, 0)>>,
        buckets |-> IF c = "deleted" THEN buckets \ {name} ELSE buckets,
        objects |->
            IF c \in {"deleted", "bucket_ClientError", "bucket_OtherError"}
            THEN emptied ELSE objects,
        raised |-> IF e # "none" /\ ~DeleteCatches(e) THEN e ELSE "none",
        reported |-> e # "none" /\ DeleteCatches(e)]

\* Lines 287-290, one iteration of the loop: delete_s3_bucket for a bucket
\* record.  Its return value is not looked at; an exception it lets through
\* leaves rollback.
RollbackDelete ==
    /\ pc = "rollback_delete"
    /\ resources # <<>>
    /\ LET resource == Head(resources)
       IN IF resource.type # "s3_bucket"
          THEN /\ resources' = Tail(resources)
               /\ UNCHANGED <<s3_buckets, s3_objects, echoed, calls, attempted,
                              pc, outcome, exit_code, exc>>
          ELSE \E c \in DeleteCases :
                /\ c \in {"deleted", "bucket_ClientError", "bucket_OtherError"}
                      => resource.name \in s3_buckets
                /\ LET d == delete_s3_bucket(resource.name, c, s3_buckets, s3_objects)
                   IN /\ attempted' = Append(attempted, resource.name)
                      /\ calls' = calls \o d.calls
                      /\ s3_buckets' = d.buckets
                      /\ s3_objects' = d.objects
                      /\ echoed' = echoed \o <<Msg("Deleting S3 bucket", resource.name)>>
                            \o (IF d.reported
                                THEN <<Msg("Error deleting S3 bucket", resource.name)>>
                                ELSE <<>>)
                      /\ IF d.raised # "none"
                         THEN /\ Propagate(d.raised, "delete_raised")
                              /\ UNCHANGED resources
                         ELSE /\ resources' = Tail(resources)
                              /\ UNCHANGED <<pc, outcome, exit_code, exc>>
    /\ UNCHANGED <<state_file, cmd, state_before, is_valid, cloneVars, deployVars,
                   bucket_name, funcVars>>

\* Lines 292-298: the state file is unlinked when it exists.
RollbackClear ==
    /\ pc = "rollback_delete"
    /\ resources = <<>>
    /\ state_file' = IF state_file.exists THEN NoStateFile ELSE state_file
    /\ echoed' = echoed \o <<Msg("Rollback completed successfully.", 0)>>
    /\ Finish("rolled_back", 0)
    /\ UNCHANGED <<s3_buckets, s3_objects, cmd, calls, state_before, is_valid,
                   cloneVars, deployVars, rollbackVars, bucket_name, exc, funcVars>>

Next ==
    \/ Start
    \/ Verify
    \/ List
    \/ InitVerify
    \/ InitConfirm
    \/ CreateBucket
    \/ PutBucketWebsite
    \/ PutBucketPolicy
    \/ RecordBucket
    \/ DeployVerify
    \/ DeployLoadState
    \/ CloneMkdtemp
    \/ CloneFrom
    \/ CloneExcept
    \/ DeployDetect
    \/ DeployBuild
    \/ DeployPrepare
    \/ DeployUpload
    \/ DeployComplete
    \/ DeployFinally
    \/ RollbackVerify
    \/ RollbackLoadState
    \/ RollbackDelete
    \/ RollbackClear

Spec == Init /\ [][Next]_vars

\* ------------------------------------------- detect_framework on its own
\* Any package.json a repository may hold is given to detect_framework.
InitDetect ==
    /\ InitCli
    /\ manifest \in Manifests
    /\ detected = Returned("none")
    /\ IdlePublish
    /\ IdleBuild

DetectCalled == detected # Returned("none")

DetectFramework ==
    /\ ~DetectCalled
    /\ detected' = detect_framework(manifest)
    /\ UNCHANGED <<persistVars, procVars, cloneVars, deployVars, rollbackVars,
                   bucket_name, exc, manifest, publishVars, buildVars>>

NextDetect == DetectFramework

SpecDetect == InitDetect /\ [][NextDetect]_vars

\* ------------------------------------------------ the upload loop on its own
\* The frameworks with which deploy gets as far as uploading: detection
\* returned one of them, "unknown" has returned before (cli.py:123-125).
UploadFrameworks == {"react", "nextjs", "angular"}

Stems == {"index", "app", ""}
Extensions == {"html", "css", "js", "json", "svg"} \cup ImageExts \cup FontExts
                  \cup {"txt", "map", "ico", "HTML", "JS", "PNG"}
\* File names a build directory may hold: without a dot, with one extension,
\* and with two.
UploadFileNames ==
    {<<st>> : st \in Stems \ {""}}
        \cup {<<st, e>> : st \in Stems, e \in Extensions}
        \cup {<<st, "min", e>> : st \in Stems \ {""}, e \in Extensions}

InitPublish ==
    /\ InitCli
    /\ IdleDetect
    /\ \E fw \in UploadFrameworks, file \in UploadFileNames :
           upload = [framework |-> fw, file |-> file, args |-> NoArgs]
    /\ IdleBuild

\* One iteration of the upload loop: the arguments for one file.
UploadOne ==
    /\ extra_args = NoArgs
    /\ upload' = [upload EXCEPT !.args = UploadArgs(up_framework, file_name)]
    /\ UNCHANGED <<persistVars, procVars, cloneVars, deployVars, rollbackVars,
                   bucket_name, exc, detectVars, buildVars>>

NextPublish == UploadOne

SpecPublish == InitPublish /\ [][NextPublish]_vars

\* ------------------------------------------------ build_project on its own
\* The frameworks build_project may be given: deploy passes what
\* detect_framework returned; any other value takes the else of line 168.
BuildFrameworks == {"react", "nextjs", "angular", "unknown"}
CallerDirs == {"home", "work"}

cliVars == <<persistVars, procVars, cloneVars, deployVars, rollbackVars,
             bucket_name, exc, detectVars, publishVars>>

\* A cloned repository of each framework, and the directory the process is
\* in.  The files only one framework's branch reads are varied for that
\* framework alone.
InitBuild ==
    /\ InitCli
    /\ IdleDetect
    /\ IdlePublish
    /\ \E dir \in CallerDirs, fw \in BuildFrameworks, pkg \in PackageJsons,
          aj \in AngularJsons, cfg \in {AbsentFile} \cup {File(c) : c \in ConfigContents} :
           /\ fw # "nextjs" => pkg = "no_export"
           /\ fw # "angular" => aj = "absent"
           /\ (fw # "nextjs" \/ pkg # "no_export") => cfg = AbsentFile
           /\ build = NotCalled(dir, fw)
           /\ repo = Cloned(pkg, aj, cfg)
           /\ trail = NoTrail(dir, cfg)

\* Lines 215-220: on every way out the finally clause changes back to the
\* saved directory and the function returns; the except clause returns None.
Return(b, value) ==
    [b EXCEPT !.result = value,
              !.cwd = FinallyChdir(b.cwd, b.current_dir),
              !.pc = "returned"]

\* The except clause of lines 215-217.
Except(b) == Return([b EXCEPT !.raised = TRUE], None)

\* The first call that gets past its build command leaves next.config.js as
\* config_now.
Completed(t, config_now) ==
    [t EXCEPT !.config_first = IF @ = FirstPending THEN config_now ELSE @]

\* Lines 77-79: the working directory is saved and changed to the clone.  A
\* chdir that fails raises inside the try.
BuildEnter ==
    /\ b_pc \in {"idle", "returned"}
    /\ runs < MaxRuns
    /\ trail' = [trail EXCEPT !.runs = @ + 1,
                              !.config_entry = next_config,
                              !.writes = <<>>]
    /\ repo' = [repo EXCEPT !.fs = NoFs, !.subdirs = <<>>]
    /\ LET called == [build EXCEPT !.current_dir = cwd, !.build_dir = None,
                                   !.result = None, !.raised = FALSE,
                                   !.probed = FALSE]
       IN \E chdir_ok \in BOOLEAN :
              build' = IF chdir_ok
                       THEN [called EXCEPT !.cwd = "repo", !.pc = "build"]
                       ELSE Except(called)
    /\ UNCHANGED cliVars

\* Lines 81-170: npm install and the build of the framework (os.system's
\* status is not looked at; what the commands leave on disk is fs), then the
\* expected build directory.  An unknown framework returns None, and so does
\* an exception.
BuildCommand ==
    /\ b_pc = "build"
    /\ CASE b_framework = "nextjs" /\ package_json = "raises" ->
               /\ build' = Except(build)
               /\ UNCHANGED <<repo, trail>>
         [] b_framework = "nextjs" /\ package_json = "export" ->
               /\ \E f \in FsAfterBuild(b_framework, angular_json) :
                      /\ repo' = [repo EXCEPT !.fs = f]
                      /\ build' = [build EXCEPT
                                      !.build_dir = ExpectedDir(b_framework, "None", f),
                                      !.pc = "locate"]
               /\ UNCHANGED trail
         [] b_framework = "nextjs" /\ package_json = "no_export" ->
               LET p == NextConfigPatch(next_config, next_backup)
               IN /\ trail' = [trail EXCEPT !.writes = p.writes]
                  /\ \E f \in FsAfterBuild(b_framework, angular_json) :
                         /\ repo' = [repo EXCEPT !.next_config = p.config,
                                                 !.next_backup = p.backup,
                                                 !.fs = f]
                         /\ build' = [build EXCEPT
                                         !.build_dir = ExpectedDir(b_framework, "None", f),
                                         !.pc = "locate"]
         [] b_framework \in {"react", "angular"} ->
               /\ \E f \in FsAfterBuild(b_framework, angular_json) :
                      /\ repo' = [repo EXCEPT !.fs = f]
                      /\ build' = [build EXCEPT
                                      !.build_dir =
                                          ExpectedDir(b_framework,
                                              AngularProjectName(angular_json,
                                                                 JsonBound(b_framework)),
                                              f),
                                      !.pc = "locate"]
               /\ UNCHANGED trail
         [] OTHER ->
               /\ build' = Return(build, None)
               /\ UNCHANGED <<repo, trail>>
    /\ UNCHANGED cliVars

\* Lines 172-213: the expected directory when it exists, else the search of
\* the usual directories, the repository root, or None.  subdirs is the
\* listing of the directory the search settles on.
BuildLocate ==
    /\ b_pc = "locate"
    /\ IF Exists(fs, b_build_dir)
       THEN /\ build' = Return(build, b_build_dir)
            /\ UNCHANGED repo
       ELSE \E subs \in Listings :
               /\ (\A d \in ProbeDirs : fs.kind[d] # "dir") => subs = <<>>
               /\ repo' = [repo EXCEPT !.subdirs = subs]
               /\ build' = Return([build EXCEPT !.probed = TRUE],
                                  ProbeFrom(1, fs, subs))
    /\ trail' = Completed(trail, next_config)
    /\ UNCHANGED cliVars

NextBuild ==
    \/ BuildEnter
    \/ BuildCommand
    \/ BuildLocate

SpecBuild == InitBuild /\ [][NextBuild]_vars

\* ================================================================= claims
DeployDone == cmd = "deploy" /\ pc = "done"
RollbackDone == cmd = "rollback" /\ pc = "done"

IsPutObject(c) == c.op = "s3:PutObject"
IsUploading(m) == m.msg = "Uploading"
IsDeletion(c) == c.op \in {"s3:DeleteObjects", "s3:DeleteBucket"}
IsSts(c) == c.op = "sts:GetCallerIdentity"
PutObjectCalls == SelectSeq(calls, IsPutObject)
UploadingLines == SelectSeq(echoed, IsUploading)
CleanupWarning == Msg("Warning: Could not fully clean up temporary files", 0)

\* The ways a deploy ends once clone_repository has returned a directory.
ExitsAfterClone ==
    {"framework_unknown", "no_artifact", "upload_failed", "exception", "complete"}
\* Those of them on which an exception leaves deploy.
RaisingExits == {"upload_failed", "exception"}

\* C1: once clone_repository has returned a directory, every way deploy ends
\* (framework unknown, no artifact directory, an exception of the upload
\* phase, completion) has called shutil.rmtree on the clone by the time
\* deploy is over; a removal that failed left only the warning as the last
\* line printed, and the exit status is that of the path taken: 0 for a
\* completed deploy, whether or not the removal worked.
C1_CleanupOnEveryExit ==
    (DeployDone /\ repo_path # "None") =>
        /\ outcome \in ExitsAfterClone
        /\ rmtree_attempted
        /\ tmp_on_disk => echoed[Len(echoed)] = CleanupWarning
        /\ exit_code = (IF outcome \in RaisingExits THEN 1 ELSE 0)
        /\ outcome = "complete" => (exit_code = 0 /\ exc = "none")

\* C1 witness: a completed deploy whose removal of the clone failed.
C1_Witness ==
    /\ DeployDone
    /\ outcome = "complete"
    /\ rmtree_attempted
    /\ tmp_on_disk
    /\ exit_code = 0

\* The ways a deploy fails.
DeployFailures ==
    {"credentials_invalid", "no_bucket", "clone_failed", "clone_raised",
     "framework_unknown", "no_artifact", "upload_failed", "exception"}

\* C2: a deploy that ended in a failure left the state file as it was when
\* the deploy started.
C2_FailedDeployKeepsState ==
    (DeployDone /\ outcome \in DeployFailures) => state_file = state_before

\* C2 witness: a deploy whose second upload failed, with records in the state.
C2_Witness ==
    /\ DeployDone
    /\ outcome = "upload_failed"
    /\ uploaded = 1
    /\ state_file.exists
    /\ Len(state_file.resources) = 2

\* C3 as stated: a completed deploy has added one bucket record, naming the
\* bucket uploaded to, at the end of the persisted state.
C3_RecordsOneBucket ==
    (DeployDone /\ outcome = "complete") =>
        /\ state_file.exists
        /\ Len(state_file.resources) = Len(state_before.resources) + 1
        /\ state_file.resources[Len(state_file.resources)]
              = Resource("s3_bucket", bucket_name)

\* C3 amended: a completed deploy has uploaded every file to the bucket of the
\* first bucket record the state already held when the deploy started, and
\* has left the persisted state as it was: it records nothing.
C3_UploadsToRecordedBucket ==
    (DeployDone /\ outcome = "complete") =>
        /\ state_file = state_before
        /\ BucketsOf(state_before.resources) # <<>>
        /\ bucket_name = BucketsOf(state_before.resources)[1]
        /\ Len(PutObjectCalls) = Len(files)
        /\ \A i \in 1..Len(PutObjectCalls) :
              PutObjectCalls[i] = Call("s3:PutObject", bucket_name, files[i])
        /\ exit_code = 0

\* C3 witness: a completed deploy of one file or more, with two buckets
\* recorded.
C3_Witness ==
    /\ DeployDone
    /\ outcome = "complete"
    /\ uploaded >= 1
    /\ Len(state_before.resources) = 2
    /\ state_before.resources[1].name # state_before.resources[2].name

\* C4 as stated: a rollback that found resources in the state has called
\* delete_s3_bucket for every recorded bucket, in order, and has removed the
\* state file, however the deletions ended.
C4_RollbackAttemptsAllAndClears ==
    (RollbackDone /\ is_valid /\ load_state(state_before) # <<>>) =>
        /\ attempted = BucketsOf(load_state(state_before))
        /\ ~state_file.exists

\* C5 as stated: a rollback on a state without resources has reported that
\* there is nothing to delete, has made no provider call at all, and has left
\* the state as it was (taken here in its most favourable case, the one of
\* credentials that verify, where the report is indeed made).
C5_NoProviderCallAtAll ==
    (RollbackDone /\ is_valid /\ load_state(state_before) = <<>>) =>
        /\ echoed = <<Msg("No resources found to delete.", 0)>>
        /\ calls = <<>>
        /\ state_file = state_before

\* C5 amended: a rollback on a state without resources makes no deletion call
\* and leaves the state as it was; the one provider call it may make is the
\* identity check of verify_aws_credentials at its start, and when that check
\* succeeds it reports that there is nothing to delete (when it fails, the
\* credential failure is what is reported).
C5_NoDeletionOnEmptyState ==
    (RollbackDone /\ load_state(state_before) = <<>>) =>
        /\ state_file = state_before
        /\ attempted = <<>>
        /\ \A i \in 1..Len(calls) : IsSts(calls[i]) /\ ~IsDeletion(calls[i])
        /\ Len(calls) <= 1
        /\ is_valid => echoed = <<Msg("No resources found to delete.", 0)>>
        /\ ~is_valid => echoed = <<Msg("AWS credentials verification failed", 0)>>

\* C5 witness: such a rollback with valid credentials, the identity check made.
C5_Witness ==
    /\ RollbackDone
    /\ load_state(state_before) = <<>>
    /\ is_valid
    /\ outcome = "nothing_to_delete"
    /\ Len(calls) = 1

\* C6: when the upload of the Nth file of the walk fails, the uploads
\* attempted are those of the first N files, in walk order and once each; the
\* N-1 objects already uploaded are in the bucket; the last file named on the
\* output is the Nth; and the exception leaves deploy (status 1).
C6_UploadAbortsAtFirstFailure ==
    (cmd = "deploy" /\ outcome = "upload_failed") =>
        LET n == uploaded + 1
        IN /\ n <= Len(files)
           /\ Len(PutObjectCalls) = n
           /\ \A i \in 1..n :
                 PutObjectCalls[i] = Call("s3:PutObject", bucket_name, files[i])
           /\ \A i \in 1..(n - 1) : files[i] \in s3_objects[bucket_name]
           /\ Len(UploadingLines) = n
           /\ UploadingLines[n] = Msg("Uploading", files[n])
           /\ exc = "S3UploadFailedError"
           /\ pc = "done" => exit_code = 1

\* C6 witness: the second of two files failed, the first is in the bucket.
C6_Witness ==
    /\ DeployDone
    /\ outcome = "upload_failed"
    /\ Len(files) = 2
    /\ uploaded = 1
    /\ files[1] \in s3_objects[bucket_name]
    /\ files[2] \notin s3_objects[bucket_name]

\* The failures C7 lists.
ReportedFailures ==
    {"credentials_invalid", "no_bucket", "clone_failed", "framework_unknown",
     "no_artifact", "create_failed"}

\* C7 as stated: a command that ended in one of these failures exits with a
\* status other than 0.
C7_FailureExitsNonZero ==
    (pc = "done" /\ outcome \in ReportedFailures) => exit_code # 0

\* C10 as stated: a clone_repository in which mkdtemp or the clone failed has
\* returned (None, None), has raised nothing, and has left no temporary
\* directory on disk.
C10_CloneFailureIsClean ==
    (DeployDone /\ outcome \in {"clone_failed", "clone_raised"}) =>
        /\ outcome = "clone_failed"
        /\ exc = "none"
        /\ ~tmp_on_disk

\* ----------------------------------------------- claims on detect_framework
WellFormed(m) ==
    /\ m.file = "parsed"
    /\ m.top = "object"
    /\ m.dependencies.shape # "other"
    /\ m.devDependencies.shape # "other"

\* The union of the runtime and development dependency names.
D(m) == m.dependencies.names \cup m.devDependencies.names

\* C8: for a manifest that is an object whose dependency sections are objects
\* (or absent), with D the union of their names, detect_framework returns
\* nextjs if next is in D, else react if react and react-dom are in D, else
\* angular if @angular/core is in D, else unknown.
C8_DetectionOrder ==
    (DetectCalled /\ WellFormed(manifest)) =>
        /\ detected.raised = "none"
        /\ "next" \in D(manifest) => detected.value = "nextjs"
        /\ ("next" \notin D(manifest) /\ {"react", "react-dom"} \subseteq D(manifest))
              => detected.value = "react"
        /\ ("next" \notin D(manifest) /\ ~({"react", "react-dom"} \subseteq D(manifest))
                /\ "@angular/core" \in D(manifest))
              => detected.value = "angular"
        /\ ("next" \notin D(manifest) /\ ~({"react", "react-dom"} \subseteq D(manifest))
                /\ "@angular/core" \notin D(manifest))
              => detected.value = "unknown"

\* C8 witness: the markers of all three frameworks, split over the two
\* sections, and nextjs detected.
C8_Witness ==
    /\ DetectCalled
    /\ manifest.dependencies.names = {"react", "react-dom", "@angular/core"}
    /\ manifest.devDependencies.names = {"next"}
    /\ detected = Returned("nextjs")

\* C9: detect_framework raises nothing, and returns unknown when the manifest
\* is missing, is not valid JSON, is no object, or has a dependency section
\* that is no object.
C9_DetectNeverRaises ==
    DetectCalled =>
        /\ detected.raised = "none"
        /\ ~WellFormed(manifest) => detected.value = "unknown"

\* C9 witness: a dependency section that is no object next to one that names
\* next, and unknown returned.
C9_Witness ==
    /\ DetectCalled
    /\ manifest.dependencies.shape = "other"
    /\ "next" \in manifest.devDependencies.names
    /\ detected = Returned("unknown")

\* ------------------------------------------------ claims on the upload loop
\* The extension of a file name as the claims use the word: the text after
\* its last dot, "" when the name has no dot.
Extension(file) == IF Len(file) >= 2 THEN file[Len(file)] ELSE ""

Classified == extra_args # NoArgs

\* The content type the table of C11 gives to an extension.
TableContentType(e) ==
    CASE e = "html" -> ContentType("text", "html")
      [] e = "css"  -> ContentType("text", "css")
      [] e = "js"   -> ContentType("application", "javascript")
      [] e = "json" -> ContentType("application", "json")
      [] e = "svg"  -> ContentType("image", "svg+xml")
      [] e \in {"png", "jpg", "jpeg", "gif"} -> ContentType("image", e)
      [] e \in {"woff", "woff2", "eot", "ttf", "otf"} -> ContentType("font", e)
      [] OTHER -> ContentType("text", "plain")

\* C11: for every file deploy uploads, whatever the framework that got as
\* far as uploading, the content type sent is the one the fixed table gives
\* to the file's extension, text/plain for every extension not in the table.
C11_ContentTypeFromTable ==
    Classified =>
        extra_args.ContentType = TableContentType(Extension(file_name))

\* A file with an extension outside the table has been given text/plain, for
\* a framework other than react.
C11_Witness ==
    /\ Classified
    /\ up_framework = "angular"
    /\ file_name = <<"app", "min", "map">>
    /\ extra_args.ContentType = ContentType("text", "plain")

\* C12 as stated: the directive is the non-caching one exactly for .html
\* files, and every other file gets the directive .css and .js files get.
C12_AllOthersLongLived ==
    Classified =>
        /\ (extra_args.CacheControl = NoCache) <=> (Extension(file_name) = "html")
        /\ Extension(file_name) # "html" =>
               extra_args.CacheControl = SpaCacheControl(<<"app", "css">>)

\* C12, amended: the directive is the non-caching one exactly for .html
\* files; .css, .js, image and font files get max-age=31536000; every other
\* file (.json, .svg, any extension outside the table, no extension) gets
\* max-age=86400.
C12_CachePerExtension ==
    Classified =>
        LET e == Extension(file_name) IN
        /\ (extra_args.CacheControl = NoCache) <=> (e = "html")
        /\ e \in {"css", "js", "png", "jpg", "jpeg", "gif",
                  "woff", "woff2", "eot", "ttf", "otf"}
               => extra_args.CacheControl = "max-age=31536000"
        /\ e \notin {"html", "css", "js", "png", "jpg", "jpeg", "gif",
                     "woff", "woff2", "eot", "ttf", "otf"}
               => extra_args.CacheControl = "max-age=86400"

\* A .json file has been given the one-day directive.
C12_Witness ==
    /\ Classified
    /\ file_name = <<"app", "json">>
    /\ extra_args.CacheControl = "max-age=86400"

\* ------------------------------------------------- claims on the state file
\* init has recorded the bucket it created and returned.
Recorded == cmd = "init" /\ pc = "done" /\ outcome = "ok"

Occurrences(rs, r) == Cardinality({i \in 1..Len(rs) : rs[i] = r})

C14_StateChangesOnlyTwoWays ==
    [][ \/ state_file' = state_file
        \/ /\ cmd = "init"
           /\ bucket_name \in s3_buckets
           /\ state_file'.exists
           /\ load_state(state_file') =
                  Append(load_state(state_file), Resource("s3_bucket", bucket_name))
        \/ /\ cmd = "rollback"
           /\ state_file.exists
           /\ state_file' = NoStateFile ]_vars

\* A rollback has removed a state file that held two appended records.
C14_Witness ==
    /\ RollbackDone
    /\ outcome = "rolled_back"
    /\ Len(load_state(state_before)) = 2
    /\ state_file = NoStateFile

\* ------------------------------------------- claims on the deploy pipeline
\* build_project has been called in this deploy.
BuildStarted ==
    cmd = "deploy" /\ (pc = "deploy_build" \/ outcome = "no_artifact" \/ build_dir # "None")

\* C15: in a deploy the build is started only with a detected framework
\* other than unknown, a file is uploaded only after the build returned an
\* artifact directory, and a deploy whose framework is unknown or whose build
\* returned none makes no upload at all.
C15_PipelineGuarded ==
    cmd = "deploy" =>
        /\ BuildStarted => framework \in {"react", "nextjs", "angular"}
        /\ (PutObjectCalls # <<>> \/ uploaded > 0 \/ pc = "deploy_upload")
               => (BuildStarted /\ build_dir # "None")
        /\ (outcome \in {"framework_unknown", "no_artifact"}
              \/ framework = "unknown" \/ (pc = "done" /\ build_dir = "None"))
               => (PutObjectCalls = <<>> /\ uploaded = 0 /\ UploadingLines = <<>>)

\* A deploy whose build returned no artifact directory has ended without an
\* upload.
C15_Witness ==
    /\ DeployDone
    /\ outcome = "no_artifact"
    /\ framework = "react"
    /\ PutObjectCalls = <<>>

\* ------------------------------------------------ claims on create_s3_bucket
\* C20: when create_s3_bucket returns False after it created the bucket
\* (put_bucket_website was reached), the bucket is gone from the provider
\* again, so that every bucket the tool created has a record.
C20_FailedCreateLeavesNoBucket ==
    (/\ cmd = "init"
     /\ pc = "done"
     /\ outcome = "create_failed"
     /\ \E i \in 1..Len(calls) : calls[i].op = "s3:PutBucketWebsite")
        => bucket_name \notin s3_buckets

\* ------------------------------------------------- claims on build_project
HasReturned == b_pc = "returned"

\* The call got past the build command of a known framework.
Built == HasReturned /\ b_build_dir # None

\* C16: when build_project returns, on whichever path (a build directory, an
\* unknown framework, no build directory, an exception), the process's
\* working directory is the one it was when build_project was called.
C16_CwdRestored == HasReturned => cwd = caller_dir

\* build_project has changed to the clone, raised while reading package.json
\* and returned with the caller's directory in place.
C16_Witness ==
    /\ HasReturned
    /\ b_raised
    /\ b_framework = "nextjs"
    /\ package_json = "raises"
    /\ current_dir = "work"
    /\ cwd = "work"

\* The expected output of the framework is on disk.
ExpectedPresent ==
    CASE b_framework = "nextjs" -> fs.out \/ fs.next_static
      [] b_framework = "react" -> fs.kind["build"] # "absent"
      [] b_framework = "angular" -> fs.kind["dist"] # "absent"
      [] OTHER -> FALSE

SearchOrder == <<"build", "dist", ".next", "public">>
FoundDirs == {i \in 1..Len(SearchOrder) : fs.kind[SearchOrder[i]] = "dir"}
WithIndex == {k \in 1..Len(subdirs) : subdirs[k]}
Least(S) == CHOOSE k \in S : \A h \in S : k <= h

\* What the search yields: the first of build, dist, .next, public that is a
\* directory, or one of its subdirectories; without any of the four, the
\* repository root when it holds index.html, else nothing.
SearchResult(prefer_subdir) ==
    IF FoundDirs = {}
    THEN IF fs.root_index THEN Path(".", 0) ELSE None
    ELSE LET d == SearchOrder[Least(FoundDirs)]
         IN IF prefer_subdir
            THEN IF WithIndex # {} THEN Path(d, Least(WithIndex)) ELSE Path(d, 0)
            ELSE IF fs.index[d] THEN Path(d, 0)
                 ELSE IF WithIndex # {} THEN Path(d, Least(WithIndex))
                 ELSE Path(d, 0)

\* C17 as stated: the search runs only when the expected output is absent,
\* and for the first directory found a subdirectory holding index.html is
\* preferred to the directory itself.
C17_SubdirectoryPreferred ==
    Built =>
        /\ probed <=> ~ExpectedPresent
        /\ probed => b_result = SearchResult(TRUE)

\* C17, amended: the search runs only when the expected output is absent.
\* Its result is decided by the first of build, dist, .next, public that
\* exists as a directory: that directory itself when it directly holds
\* index.html; otherwise its first subdirectory (one level deep) that holds
\* index.html; otherwise that directory anyway.  When none of the four
\* exists as a directory the result is the repository root if it directly
\* holds index.html, and failure otherwise.  In particular, without a build
\* directory and with dist/index.html, dist is selected.
C17_FallbackSearch ==
    Built =>
        /\ probed <=> ~ExpectedPresent
        /\ probed => b_result = SearchResult(FALSE)
        /\ (probed /\ fs.kind["build"] = "absent" /\ fs.index["dist"])
               => b_result = Path("dist", 0)

\* The search settled on dist, which holds index.html itself and in a
\* subdirectory, and dist itself was returned.
C17_Witness ==
    /\ Built
    /\ probed
    /\ b_framework = "react"
    /\ fs.kind["build"] = "absent"
    /\ fs.index["dist"]
    /\ subdirs = <<TRUE>>
    /\ b_result = Path("dist", 0)

\* A Next.js build of a project without an export script.
NextRun == b_framework = "nextjs" /\ package_json = "no_export"

\* C18: in a Next.js build without an export script, next.config.js is
\* rewritten only if it held no output setting; whenever it is rewritten, a
\* backup with the content it had was written first; and a later build
\* leaves next.config.js as the first build left it, with the backup still
\* holding the original content.
C18_ConfigPatchedOnce ==
    (NextRun /\ HasReturned) =>
        /\ next_config # config_entry =>
               (config_entry.exists /\ ~HasOutput(config_entry.content))
        /\ \A i \in 1..Len(writes) :
               writes[i].file = "next.config.js" =>
                   \E j \in 1..(i - 1) :
                       writes[j] = Written("next.config.js.bak", config_entry.content)
        /\ next_config # config_entry => next_backup = File(config_entry.content)
        /\ config_first # FirstPending => next_config = config_first
        /\ next_backup.exists => next_backup = File(config_orig.content)

\* The second build found the configuration the first one had patched and
\* left it and the backup alone.
C18_Witness ==
    /\ NextRun
    /\ HasReturned
    /\ ~b_raised
    /\ runs = 2
    /\ config_orig = File(<<ModuleExports>>)
    /\ config_entry = File(<<ModuleExports, OutputExport>>)
    /\ next_config = config_entry
    /\ next_backup = config_orig

\* angular.json names a project.
NamesProject == angular_json \in {"defaultProject", "projects"}

\* C19: when the framework's expected output exists after the build,
\* build_project returns exactly it: nextjs gives out when it exists, else
\* .next/static when that exists; react gives build; angular gives
\* dist/<project> when angular.json names a project and that directory
\* exists, else dist.
C19_ExpectedDirReturned ==
    Built =>
        CASE b_framework = "nextjs" ->
                 /\ fs.out => b_result = Path("out", 0)
                 /\ (~fs.out /\ fs.next_static) => b_result = Path(".next/static", 0)
          [] b_framework = "react" ->
                 fs.kind["build"] # "absent" => b_result = Path("build", 0)
          [] b_framework = "angular" ->
                 /\ (NamesProject /\ fs.dist_project)
                        => b_result = Path("dist/project", 0)
                 /\ (~(NamesProject /\ fs.dist_project) /\ fs.kind["dist"] # "absent")
                        => b_result = Path("dist", 0)
          [] OTHER -> TRUE

====
